---- MODULE Spec2Model ----
(***************************************************************************)
(* Model of pythonbible_parser.osis.parser: the OSIS passage extraction    *)
(* engine (OSISParser.get_scripture_passage_text / get_verse_text and the  *)
(* module functions they call) together with the lru_cache memoization     *)
(* whose cached values are visible to callers (the paragraph lists).       *)
(*                                                                         *)
(* Strings are sequences of one-character strings, so that replace, strip  *)
(* and endswith are computed as Python computes them.  An element is a     *)
(* record [tag, osisID, text, tail, children]; an element object is        *)
(* identified by its path (child indices) from the root of the tree.       *)
(***************************************************************************)
EXTENDS Integers, Sequences, FiniteSets, TLC

VARIABLES doc, pfe_cache, passage_cache, verse_text_cache, last, calls,
          title_element_cache, book_title_cache, short_title_cache

\* the lru_caches of _get_book_title_element, get_book_title and
\* get_short_book_title
title_vars == <<title_element_cache, book_title_cache, short_title_cache>>

vars == <<doc, pfe_cache, passage_cache, verse_text_cache, last, calls,
          title_element_cache, book_title_cache, short_title_cache>>

(***************************************************************************)
(* Bounds of the model.                                                    *)
(***************************************************************************)
\* number of public calls made on one parser in one behaviour
MaxCalls == 2
\* longest verse id list a caller passes
MaxReqLen == 3

(***************************************************************************)
(* Python string primitives.                                               *)
(***************************************************************************)
Whitespace == {" ", "\n", "\t", "\r"}

RECURSIVE Replace(_, _, _)
\* str.replace(old, new): non-overlapping occurrences, left to right
Replace(s, old, new) ==
  IF Len(s) < Len(old) THEN s
  ELSE IF SubSeq(s, 1, Len(old)) = old
       THEN new \o Replace(SubSeq(s, Len(old) + 1, Len(s)), old, new)
       ELSE <<s[1]>> \o Replace(Tail(s), old, new)

RECURSIVE LStrip(_)
LStrip(s) ==
  IF s # <<>> /\ s[1] \in Whitespace THEN LStrip(Tail(s)) ELSE s

RECURSIVE RStrip(_)
RStrip(s) ==
  IF s # <<>> /\ s[Len(s)] \in Whitespace
  THEN RStrip(SubSeq(s, 1, Len(s) - 1)) ELSE s

\* str.strip()
Strip(s) == RStrip(LStrip(s))

\* str.endswith(" ")
EndsWithSpace(s) == s # <<>> /\ s[Len(s)] = " "

Digits == <<"0", "1", "2", "3", "4", "5", "6", "7", "8", "9">>

RECURSIVE IntToStr(_)
\* str(n) / "{}".format(n) for a natural number
IntToStr(n) ==
  IF n < 10 THEN <<Digits[n + 1]>>
  ELSE IntToStr(n \div 10) \o <<Digits[(n % 10) + 1]>>

DigitValue(c) == CHOOSE d \in 0..9 : Digits[d + 1] = c

RECURSIVE StrToInt(_)
\* int(s) for a string of decimal digits
StrToInt(s) ==
  IF Len(s) = 1 THEN DigitValue(s[1])
  ELSE 10 * StrToInt(SubSeq(s, 1, Len(s) - 1)) + DigitValue(s[Len(s)])

(***************************************************************************)
(* pythonbible: books and the verse id numbering.                          *)
(***************************************************************************)
GENESIS == 1
EXODUS == 2
\* a Book of the enumeration that BOOK_IDS has no entry for
MACCABEES_3 == 73

\* constants.BOOK_IDS
BOOK_IDS == [b \in {GENESIS, EXODUS} |->
               IF b = GENESIS THEN "Gen" ELSE "Exod"]

\* dict.get(key) -> None on a miss; "{}".format(None) is "None"
BookIdOrNone(book) ==
  IF book \in DOMAIN BOOK_IDS THEN BOOK_IDS[book] ELSE "None"

\* constants.get_book_by_id: the book, or InvalidBookError
get_book_by_id(book_id) ==
  IF \E b \in DOMAIN BOOK_IDS : BOOK_IDS[b] = book_id
  THEN [err |-> "", book |-> CHOOSE b \in DOMAIN BOOK_IDS : BOOK_IDS[b] = book_id]
  ELSE [err |-> "InvalidBookError", book |-> 0]

\* pythonbible.get_verse_id
get_verse_id(book, chapter, verse) == book * 1000000 + chapter * 1000 + verse

\* pythonbible.get_book_chapter_verse
get_book_chapter_verse(verse_id) ==
  [book |-> verse_id \div 1000000,
   chapter |-> (verse_id % 1000000) \div 1000,
   verse |-> verse_id % 1000]

(***************************************************************************)
(* Elements of a parsed document.                                          *)
(***************************************************************************)
\* the osisID attribute as osis_id.split(".") sees it: <<book, chapter, verse>>
OsisId(code, chapter, verse) == <<code, IntToStr(chapter), IntToStr(verse)>>

\* child_element.get("osisID", ".."): the default for an absent attribute
PlaceholderOsisId == <<"..", <<>>, <<>>>>

\* short is the attribute "short", <<>> when the element has none
El(tag, osis, text, tail, children) ==
  [tag |-> tag, osisID |-> osis, text |-> text, tail |-> tail,
   children |-> children, short |-> <<>>]

\* <verse osisID="Gen.ch.v">text</verse>tail
V(ch, v, text, tail) == El("verse", OsisId("Gen", ch, v), text, tail, <<>>)
\* an element without osisID
E(tag, text, tail, children) == El(tag, PlaceholderOsisId, text, tail, children)
W(text, tail) == E("w", text, tail, <<>>)
\* <div osisID="code">children</div>
Div(code, children) == El("div", <<code>>, <<>>, <<>>, children)
\* <title short="short">text</title>
Title(text, short) == [E("title", text, <<>>, <<>>) EXCEPT !.short = short]

NoElement == <<-1>>

RECURSIVE ElementAt(_, _)
ElementAt(el, path) ==
  IF path = <<>> THEN el ELSE ElementAt(el.children[path[1]], Tail(path))

RECURSIVE FindVerseParent(_, _, _, _)
\* tree.find(".//verse[@osisID='...']/.."): the parent of the first verse
\* element, in document order, that carries this osisID; None when absent.
\* Children of el from index i on are searched; path is el's path.
FindVerseParent(el, path, i, osis) ==
  IF i > Len(el.children) THEN NoElement
  ELSE LET c == el.children[i] IN
       IF c.tag = "verse" /\ c.osisID = osis THEN path
       ELSE LET below == FindVerseParent(c, Append(path, i), 1, osis) IN
            IF below # NoElement THEN below
            ELSE FindVerseParent(el, path, i + 1, osis)

RECURSIVE FindBookDivs(_, _, _)
\* ".//div[@osisID='code']": the div elements that carry the code among the
\* descendants of el from child i on, in document order
FindBookDivs(el, i, code) ==
  IF i > Len(el.children) THEN <<>>
  ELSE (IF el.children[i].tag = "div" /\ el.children[i].osisID = <<code>>
        THEN <<el.children[i]>> ELSE <<>>)
         \o FindBookDivs(el.children[i], 1, code)
         \o FindBookDivs(el, i + 1, code)

RECURSIVE TitleChildren(_, _)
\* "/title": the title children of the elements of divs, in order
TitleChildren(divs, i) ==
  IF divs = <<>> THEN <<>>
  ELSE IF i > Len(divs[1].children) THEN TitleChildren(Tail(divs), 1)
  ELSE (IF divs[1].children[i].tag = "title"
        THEN <<divs[1].children[i]>> ELSE <<>>)
         \o TitleChildren(divs, i + 1)

\* None where an element is expected
NoTitle == E("None", <<>>, <<>>, <<>>)

\* tree.find(XPATH_BOOK_TITLE.format(book id)): the first match, None when
\* there is none
tree_find_title(tree, book_id) ==
  IF TitleChildren(FindBookDivs(tree, 1, book_id), 1) = <<>> THEN NoTitle
  ELSE TitleChildren(FindBookDivs(tree, 1, book_id), 1)[1]

\* XPATH_VERSE_PARENT.format(book id, chapter, verse), looked up in the tree
tree_find(tree, book_id, chapter, verse) ==
  FindVerseParent(tree, <<>>, 1, <<book_id, IntToStr(chapter), IntToStr(verse)>>)

(***************************************************************************)
(* Text of an element and cleaning.                                        *)
(***************************************************************************)
_get_element_text(element) == Replace(element.text, <<"\n">>, <<" ">>)

_get_element_tail(element) == Replace(element.tail, <<"\n">>, <<" ">>)

_get_element_text_and_tail(element) ==
  _get_element_text(element) \o _get_element_tail(element)

clean_paragraph(paragraph) ==
  Strip(Replace(Replace(paragraph, <<"¶">>, <<>>), <<" ", " ">>, <<" ">>))

(***************************************************************************)
(* The traversal.  A handler returns (text, skip_till_next_verse,          *)
(* current verse id); err is the exception raised instead, "" for none;    *)
(* events lists, in the order handled, the verse boundaries with an        *)
(* osisID that the handler reached (a record of the run, read by the       *)
(* properties only).                                                       *)
(***************************************************************************)
Ret(text, skip, cur, events) ==
  [text |-> text, skip |-> skip, cur |-> cur, events |-> events, err |-> ""]

Raise(err, skip, cur, events) ==
  [text |-> <<>>, skip |-> skip, cur |-> cur, events |-> events, err |-> err]

InSeq(x, s) == \E i \in 1..Len(s) : s[i] = x

\* tuple.index(x): the first position of x
IndexOf(s, x) == CHOOSE i \in 1..Len(s) : s[i] = x /\ \A j \in 1..(i - 1) : s[j] # x

Ellipsis == <<".", ".", ".", " ">>

\* s.startswith(prefix)
StartsWith(s, prefix) ==
  Len(s) >= Len(prefix) /\ SubSeq(s, 1, Len(prefix)) = prefix

\* the record of a verse boundary handled: its id, whether it was
\* requested, the traversal state it was handed and whether the text it
\* contributed opens with the ellipsis marker
VerseEvent(verse_id, requested, skip_till_next_verse, current_verse_id, paragraph) ==
  <<[kind |-> "verse", id |-> verse_id, requested |-> requested,
     skip_before |-> skip_till_next_verse, cur_before |-> current_verse_id,
     ellipsis |-> StartsWith(paragraph, Ellipsis), text |-> paragraph,
     inside_note |-> FALSE]>>

\* the record of a variant reading reached: its text, the skipping mode it
\* was reached in, whether its parent is a note
RdgEvent(child_element, skip_till_next_verse, inside_note) ==
  IF child_element.tag = "rdg"
  THEN <<[kind |-> "rdg", id |-> 0, requested |-> FALSE,
          skip_before |-> skip_till_next_verse, cur_before |-> 0,
          ellipsis |-> FALSE, text |-> child_element.text,
          inside_note |-> inside_note]>>
  ELSE <<>>

\* VerseParagraph with the marker only for a jump of more than two
VerseParagraph_gap_of_two(child_element, skip_till_next_verse, current_verse_id, include_verse_number, verse_id) ==
  (IF skip_till_next_verse /\ verse_id > current_verse_id + 2
   THEN Ellipsis ELSE <<>>)
    \o (IF include_verse_number
        THEN child_element.osisID[3] \o <<".", " ">> ELSE <<>>)
    \o _get_element_text_and_tail(child_element)

\* VerseParagraph with the marker whether or not the traversal was skipping
VerseParagraph_without_skip(child_element, skip_till_next_verse, current_verse_id, include_verse_number, verse_id) ==
  (IF verse_id > current_verse_id + 1 THEN Ellipsis ELSE <<>>)
    \o (IF include_verse_number
        THEN child_element.osisID[3] \o <<".", " ">> ELSE <<>>)
    \o _get_element_text_and_tail(child_element)

\* VerseParagraph with the chapter number for the verse number
VerseParagraph_chapter_number(child_element, skip_till_next_verse, current_verse_id, include_verse_number, verse_id) ==
  (IF skip_till_next_verse /\ verse_id > current_verse_id + 1
   THEN Ellipsis ELSE <<>>)
    \o (IF include_verse_number
        THEN child_element.osisID[2] \o <<".", " ">> ELSE <<>>)
    \o _get_element_text_and_tail(child_element)

\* lines 344-354: the text a requested verse contributes
VerseParagraph(child_element, skip_till_next_verse, current_verse_id, include_verse_number, verse_id) ==
  (IF skip_till_next_verse /\ verse_id > current_verse_id + 1
   THEN Ellipsis ELSE <<>>)
    \o (IF include_verse_number
        THEN child_element.osisID[3] \o <<".", " ">> ELSE <<>>)
    \o _get_element_text_and_tail(child_element)

\* the result of a requested verse, paragraph being its text
MatchedVerse(verse_id, skip_till_next_verse, current_verse_id, paragraph) ==
  Ret(paragraph, FALSE, verse_id,
      VerseEvent(verse_id, TRUE, skip_till_next_verse, current_verse_id, paragraph))

\* _handle_decoded_verse taking the id of a verse that is not requested for
\* the current one
_handle_decoded_verse_advancing(child_element, verse_ids, skip_till_next_verse, current_verse_id, include_verse_number, verse_id) ==
  IF InSeq(verse_id, verse_ids)
  THEN MatchedVerse(verse_id, skip_till_next_verse, current_verse_id,
                    VerseParagraph(child_element, skip_till_next_verse,
                                   current_verse_id, include_verse_number,
                                   verse_id))
  ELSE Ret(<<>>, TRUE, verse_id,
           VerseEvent(verse_id, FALSE, skip_till_next_verse,
                      current_verse_id, <<>>))

\* _handle_verse_tag once verse_id is decoded from the osisID (lines 344-359)
_handle_decoded_verse(child_element, verse_ids, skip_till_next_verse, current_verse_id, include_verse_number, verse_id) ==
  IF InSeq(verse_id, verse_ids)
  THEN MatchedVerse(verse_id, skip_till_next_verse, current_verse_id,
                    VerseParagraph(child_element, skip_till_next_verse,
                                   current_verse_id, include_verse_number,
                                   verse_id))
  ELSE Ret(<<>>, TRUE, current_verse_id,
           VerseEvent(verse_id, FALSE, skip_till_next_verse,
                      current_verse_id, <<>>))

\* _handle_verse_tag once the book of the osisID is looked up (lines 341-342)
_handle_booked_verse(child_element, verse_ids, skip_till_next_verse, current_verse_id, include_verse_number, b) ==
  IF b.err # ""
  THEN Raise(b.err, skip_till_next_verse, current_verse_id, <<>>)
  ELSE _handle_decoded_verse(child_element, verse_ids, skip_till_next_verse,
                             current_verse_id, include_verse_number,
                             get_verse_id(b.book,
                                          StrToInt(child_element.osisID[2]),
                                          StrToInt(child_element.osisID[3])))

_handle_verse_tag(child_element, verse_ids, skip_till_next_verse, current_verse_id, include_verse_number) ==
  IF child_element.osisID = PlaceholderOsisId
  THEN Ret(<<>>, skip_till_next_verse, current_verse_id, <<>>)
  ELSE _handle_booked_verse(child_element, verse_ids, skip_till_next_verse,
                            current_verse_id, include_verse_number,
                            get_book_by_id(child_element.osisID[1]))

RECURSIVE _handle_child_element(_, _, _, _, _, _)
RECURSIVE _handle_grandchildren(_, _, _, _, _, _, _)
RECURSIVE _after_grandchild(_, _, _, _, _, _, _, _)

\* _handle_grandchildren telling no grandchild that its parent is a note
_handle_grandchildren_outside_note(child_element, i, verse_ids, current_verse_id, include_verse_number, tag, acc) ==
  IF i > Len(child_element.children) THEN acc
  ELSE _after_grandchild(child_element, i, verse_ids, current_verse_id,
                         include_verse_number, tag, acc,
                         _handle_child_element(child_element.children[i],
                                               verse_ids, acc.skip,
                                               current_verse_id,
                                               include_verse_number,
                                               FALSE))

\* the loop over list(child_element) of _handle_child_element, from child i
\* on; acc holds paragraph, skip_till_next_verse and new_current_verse_id.
\* Every grandchild is handed current_verse_id, the id the parent was given.
_handle_grandchildren(child_element, i, verse_ids, current_verse_id, include_verse_number, tag, acc) ==
  IF i > Len(child_element.children) THEN acc
  ELSE _after_grandchild(child_element, i, verse_ids, current_verse_id,
                         include_verse_number, tag, acc,
                         _handle_child_element(child_element.children[i],
                                               verse_ids, acc.skip,
                                               current_verse_id,
                                               include_verse_number,
                                               tag = "note"))

\* _after_grandchild going on with the skipping flag the loop had before the
\* grandchild
_after_grandchild_skip_not_carried(child_element, i, verse_ids, current_verse_id, include_verse_number, tag, acc, r) ==
  IF r.err # "" THEN Raise(r.err, r.skip, r.cur, acc.events \o r.events)
  ELSE _handle_grandchildren(child_element, i + 1, verse_ids,
                             current_verse_id, include_verse_number, tag,
                             Ret(acc.text \o r.text, acc.skip, r.cur,
                                 acc.events \o r.events))

\* the body of that loop after the recursive call returned r (line 315)
_after_grandchild(child_element, i, verse_ids, current_verse_id, include_verse_number, tag, acc, r) ==
  IF r.err # "" THEN Raise(r.err, r.skip, r.cur, acc.events \o r.events)
  ELSE _handle_grandchildren(child_element, i + 1, verse_ids,
                             current_verse_id, include_verse_number, tag,
                             Ret(acc.text \o r.text, r.skip, r.cur,
                                 acc.events \o r.events))

\* the end of _handle_child_element, r being the state after the loop
_finish_child_element(child_element, tag, r) ==
  IF r.err # "" THEN r
  ELSE Ret(clean_paragraph(r.text \o (IF tag = "seg"
                                      THEN _get_element_tail(child_element)
                                      ELSE <<>>)),
           r.skip, r.cur, r.events)

\* _handle_child_element with the test for rdg ahead of the test for skipping
_handle_child_element_rdg_first(child_element, verse_ids, skip_till_next_verse, current_verse_id, include_verse_number, inside_note) ==
  IF child_element.tag = "verse"
  THEN _handle_verse_tag(child_element, verse_ids, skip_till_next_verse,
                         current_verse_id, include_verse_number)
  ELSE IF child_element.tag = "rdg"
  THEN Ret(_get_element_text(child_element), skip_till_next_verse,
           current_verse_id,
           RdgEvent(child_element, skip_till_next_verse, inside_note))
  ELSE IF skip_till_next_verse
  THEN Ret(<<>>, skip_till_next_verse, current_verse_id, <<>>)
  ELSE IF inside_note
  THEN Ret(<<>>, skip_till_next_verse, current_verse_id, <<>>)
  ELSE IF child_element.tag \in {"w", "transChange"}
  THEN Ret(_get_element_text_and_tail(child_element), skip_till_next_verse,
           current_verse_id, <<>>)
  ELSE _finish_child_element(
         child_element, child_element.tag,
         _handle_grandchildren(child_element, 1, verse_ids, current_verse_id,
                               include_verse_number, child_element.tag,
                               Ret(IF child_element.tag = "q"
                                   THEN _get_element_text_and_tail(child_element)
                                   ELSE <<>>,
                                   skip_till_next_verse, current_verse_id, <<>>)))

_handle_child_element(child_element, verse_ids, skip_till_next_verse, current_verse_id, include_verse_number, inside_note) ==
  IF child_element.tag = "verse"
  THEN _handle_verse_tag(child_element, verse_ids, skip_till_next_verse,
                         current_verse_id, include_verse_number)
  ELSE IF skip_till_next_verse
  THEN Ret(<<>>, skip_till_next_verse, current_verse_id,
           RdgEvent(child_element, skip_till_next_verse, inside_note))
  ELSE IF child_element.tag = "rdg"
  THEN Ret(_get_element_text(child_element), skip_till_next_verse,
           current_verse_id,
           RdgEvent(child_element, skip_till_next_verse, inside_note))
  ELSE IF inside_note
  THEN Ret(<<>>, skip_till_next_verse, current_verse_id, <<>>)
  ELSE IF child_element.tag \in {"w", "transChange"}
  THEN Ret(_get_element_text_and_tail(child_element), skip_till_next_verse,
           current_verse_id, <<>>)
  ELSE _finish_child_element(
         child_element, child_element.tag,
         _handle_grandchildren(child_element, 1, verse_ids, current_verse_id,
                               include_verse_number, child_element.tag,
                               Ret(IF child_element.tag = "q"
                                   THEN _get_element_text_and_tail(child_element)
                                   ELSE <<>>,
                                   skip_till_next_verse, current_verse_id, <<>>)))

RECURSIVE _get_paragraph_loop(_, _, _, _, _)
RECURSIVE _after_child(_, _, _, _, _, _)

\* the loop over list(paragraph_element) of _get_paragraph_from_element,
\* from child i on; acc holds paragraph, skip_till_next_verse and
\* new_current_verse_id
_get_paragraph_loop(paragraph_element, i, verse_ids, include_verse_number, acc) ==
  IF i > Len(paragraph_element.children) THEN acc
  ELSE _after_child(paragraph_element, i, verse_ids, include_verse_number, acc,
                    _handle_child_element(paragraph_element.children[i],
                                          verse_ids, acc.skip, acc.cur,
                                          include_verse_number, FALSE))

\* paragraph after a child contributed child_paragraph (lines 241-247)
JoinParagraph(paragraph, child_paragraph) ==
  IF Len(child_paragraph) = 0 THEN paragraph
  ELSE IF Len(paragraph) > 0 /\ ~EndsWithSpace(paragraph)
       THEN paragraph \o <<" ">> \o child_paragraph
       ELSE paragraph \o child_paragraph

\* the body of that loop after _handle_child_element returned r
_after_child(paragraph_element, i, verse_ids, include_verse_number, acc, r) ==
  IF r.err # "" THEN Raise(r.err, r.skip, r.cur, acc.events \o r.events)
  ELSE _get_paragraph_loop(paragraph_element, i + 1, verse_ids,
                           include_verse_number,
                           Ret(JoinParagraph(acc.text, r.text), r.skip, r.cur,
                               acc.events \o r.events))

\* the end of _get_paragraph_from_element, r being the state after the loop
_finish_paragraph(r) ==
  [paragraphs |-> <<clean_paragraph(r.text)>>, cur |-> r.cur,
   events |-> r.events, err |-> r.err]

\* _get_paragraph_from_element without its cache: the value computed on a
\* miss.  paragraphs is the new one-element list; cur the id returned.
_get_paragraph_from_element(paragraph_element, verse_ids, current_verse_id, include_verse_number) ==
  _finish_paragraph(_get_paragraph_loop(paragraph_element, 1, verse_ids,
                                        include_verse_number,
                                        Ret(<<>>, FALSE, current_verse_id, <<>>)))

(***************************************************************************)
(* Documents.  Every letter occurs once in a document, so that a letter of *)
(* an output string names the element it came from.                        *)
(***************************************************************************)
G(ch, v) == get_verse_id(GENESIS, ch, v)

P(children) == E("p", <<>>, <<"\n">>, children)

\* three paragraphs of one chapter, one verse each
Doc1 ==
  [tree |-> E("div", <<>>, <<>>, <<
              P(<<V(1, 1, <<"a">>, <<>>)>>),
              P(<<V(1, 2, <<"b">>, <<>>)>>),
              P(<<V(1, 3, <<"c">>, <<>>)>>) >>),
   pool |-> {G(1, 1), G(1, 2), G(1, 3)}]

\* one paragraph holding four verses
Doc2 ==
  [tree |-> E("div", <<>>, <<>>, <<
              P(<<V(1, 1, <<"a">>, <<"\n">>),
                  V(1, 2, <<"b">>, <<" ">>),
                  V(1, 3, <<"c">>, <<>>),
                  V(1, 4, <<"d">>, <<>>)>>) >>),
   pool |-> {G(1, 2), G(1, 3), G(1, 4)}]

\* a paragraph that opens with prose continuing the previous paragraph's
\* verse; a second chapter
Doc3 ==
  [tree |-> E("div", <<>>, <<>>, <<
              P(<<V(1, 1, <<"a">>, <<>>), V(1, 2, <<"b">>, <<>>)>>),
              P(<<W(<<"x">>, <<" ">>), V(1, 3, <<"c">>, <<>>)>>),
              P(<<V(2, 1, <<"d">>, <<>>)>>) >>),
   pool |-> {G(1, 1), G(1, 2), G(1, 3), G(2, 1)}]

\* notes with variant readings, inside and outside requested verses
Doc4 ==
  [tree |-> E("div", <<>>, <<>>, <<
              P(<<V(1, 1, <<"a">>, <<>>),
                  E("note", <<"n">>, <<"o">>, <<
                      W(<<"m">>, <<>>),
                      E("rdg", <<"r">>, <<"u">>, <<>>),
                      E("seg", <<>>, <<"h">>, <<W(<<"i">>, <<>>)>>) >>),
                  V(1, 2, <<"b">>, <<>>),
                  E("note", <<>>, <<>>, <<
                      E("rdg", <<"s">>, <<>>, <<>>),
                      W(<<"k">>, <<>>) >>),
                  E("rdg", <<"t">>, <<>>, <<>>),
                  V(1, 3, <<"c">>, <<>>)>>) >>),
   pool |-> {G(1, 1), G(1, 2), G(1, 3)}]

\* a milestone verse followed by words, a quotation holding a verse and a
\* word, a segment, a verse element without osisID, a text modification, a
\* paragraph-break marker
Doc5 ==
  [tree |-> E("div", <<>>, <<>>, <<
              P(<<V(1, 1, <<>>, <<"\n">>),
                  W(<<"a">>, <<" ">>),
                  E("q", <<"k">>, <<"l">>, <<
                      V(1, 2, <<"b">>, <<>>),
                      W(<<"e">>, <<>>) >>),
                  E("seg", <<"i">>, <<"g">>, <<W(<<"f">>, <<>>)>>),
                  E("verse", <<>>, <<>>, <<>>),
                  E("transChange", <<"j">>, <<>>, <<>>),
                  V(1, 3, <<"c">>, <<" ", "¶">>)>>) >>),
   pool |-> {G(1, 1), G(1, 2), G(1, 3)}]

\* two books, the first with a title that has text and a short form, the
\* second with a title that has neither; the pool also holds a verse of a
\* book without division code and a verse the document does not have
Doc6 ==
  [tree |-> E("osisText", <<>>, <<>>, <<
              Div("Gen", <<
                  Title(<<"g">>, <<"h">>),
                  P(<<V(1, 1, <<"a">>, <<>>)>>) >>),
              Div("Exod", <<
                  Title(<<>>, <<>>),
                  P(<<El("verse", OsisId("Exod", 1, 1), <<"z">>, <<>>, <<>>)>>) >>) >>),
   pool |-> {G(1, 1), G(1, 2), get_verse_id(EXODUS, 1, 1),
             get_verse_id(MACCABEES_3, 1, 1)}]

\* a paragraph that ends with a verse without text
Doc7 ==
  [tree |-> E("div", <<>>, <<>>, <<
              P(<<V(1, 1, <<"a">>, <<>>),
                  V(1, 2, <<"b">>, <<>>),
                  V(1, 3, <<>>, <<>>)>>) >>),
   pool |-> {G(1, 1), G(1, 2), G(1, 3)}]

\* a paragraph-break marker between two spaces and a run of three spaces
Doc8 ==
  [tree |-> E("div", <<>>, <<>>, <<
              P(<<V(1, 1, <<"a">>, <<" ", "¶", " ">>),
                  V(1, 2, <<"b">>, <<" ", " ", " ">>),
                  W(<<"e">>, <<>>)>>) >>),
   pool |-> {G(1, 1), G(1, 2)}]

\* lru_cache(): maxsize defaults to 128
maxsize == 128

\* the k-th verse of a long document, twenty verses to a chapter
LongVerse(k) == G((k - 1) \div 20 + 1, ((k - 1) % 20) + 1)

\* the verses of chapter ch of the long document
LongChapter(ch) ==
  E("chapter", <<>>, <<>>,
    [v \in 1..(IF ch * 20 <= maxsize + 1 THEN 20 ELSE maxsize + 1 - (ch - 1) * 20) |->
       P(<<V(ch, v, <<"a">>, <<>>)>>)])

\* a document of maxsize + 1 verses, a paragraph each
LongDoc ==
  [tree |-> E("div", <<>>, <<>>, [ch \in 1..(maxsize \div 20 + 1) |-> LongChapter(ch)]),
   pool |-> {LongVerse(k) : k \in 1..(maxsize + 1)}]

ShortDocs == <<Doc1, Doc2, Doc3, Doc4, Doc5, Doc6, Doc7, Doc8>>

Docs == ShortDocs \o <<LongDoc>>

Tree == Docs[doc].tree

Pool == Docs[doc].pool

(***************************************************************************)
(* Dictionaries, the lru_cache of the memoized methods and the cached      *)
(* paragraph lists.  A cache holds map, its entries, and lru, their keys   *)
(* from the least to the most recently used.  A paragraph list is a        *)
(* mutable object: pfe_cache.heap maps the reference of every list         *)
(* _get_paragraph_from_element created to the list's current contents, and *)
(* the entries of pfe_cache and the result dictionaries hold references.   *)
(***************************************************************************)
EmptyDict == [k \in {} |-> 0]

NoList == 0

\* d[key] = value
Put(d, key, value) ==
  [k \in DOMAIN d \cup {key} |-> IF k = key THEN value ELSE d[k]]

\* d.get(key, default)
Get(d, key, default) == IF key \in DOMAIN d THEN d[key] ELSE default

EmptyCache == [map |-> EmptyDict, lru |-> <<>>]

Without(s, x) == SelectSeq(s, LAMBDA y : y # x)

\* a hit makes the entry the most recently used one
Touch(c, key) == [c EXCEPT !.lru = Without(@, key) \o <<key>>]

\* a miss stores the result; in a full cache the least recently used entry
\* goes
Store(c, key, value) ==
  IF Len(c.lru) >= maxsize
  THEN [c EXCEPT !.map = Put([k \in DOMAIN @ \ {c.lru[1]} |-> @[k]], key, value),
                 !.lru = Tail(@) \o <<key>>]
  ELSE [c EXCEPT !.map = Put(@, key, value), !.lru = @ \o <<key>>]

\* the cache after a call under key that returned value
Cached(c, key, value) ==
  IF key \in DOMAIN c.map THEN Touch(c, key) ELSE Store(c, key, value)

\* the reference of the next list created
NewList(cache) == Cardinality(DOMAIN cache.heap) + 1

\* the contents of the lists a result refers to
Deref(dict, cache) ==
  [b \in DOMAIN dict |-> [c \in DOMAIN dict[b] |-> cache.heap[dict[b][c]]]]

\* what a failing step of _get_paragraphs leaves behind
Failed(cache, err, steps, lookups) ==
  [cache |-> cache, err |-> err, dict |-> EmptyDict, steps |-> steps,
   lookups |-> lookups]

\* the lru_cache of _get_paragraph_from_element on a miss: the cache
\* afterwards and the list and verse id returned; computed is what the
\* function returns (an exception is not cached)
CachedParagraph(cache, key, computed) ==
  IF computed.err # "" THEN [cache |-> cache, err |-> computed.err, cur |-> 0, list |-> NoList]
  ELSE [cache |-> [Store(cache, key, [list |-> NewList(cache), cur |-> computed.cur])
                     EXCEPT !.heap = Put(@, NewList(cache), computed.paragraphs)],
        err |-> "", cur |-> computed.cur, list |-> NewList(cache)]

\* lines 206-212: the merge of this step's list with the dictionary rec the
\* recursive call returned; list refers to this step's list
MergeParagraphs(list, book, chapter, verse_ids, rec) ==
  IF rec.err # ""
  THEN Failed(rec.cache, rec.err, <<verse_ids>> \o rec.steps, 1 + rec.lookups)
  ELSE [cache |-> [rec.cache EXCEPT !.heap[list] =
                     @ \o (IF Get(Get(rec.dict, book, EmptyDict), chapter, NoList) = NoList
                           THEN <<>>
                           ELSE rec.cache.heap[Get(Get(rec.dict, book, EmptyDict), chapter, NoList)])],
        err |-> "",
        dict |-> Put(rec.dict, book,
                     Put(Get(rec.dict, book, EmptyDict), chapter, list)),
        steps |-> <<verse_ids>> \o rec.steps,
        lookups |-> 1 + rec.lookups]

RECURSIVE _get_paragraphs(_, _, _, _)
RECURSIVE _get_paragraphs_rest(_, _, _, _, _)

\* lines 195-212: got is the outcome of the (cached) call of
\* _get_paragraph_from_element
_get_paragraphs_rest(tree, verse_ids, include_verse_number, bcv, got) ==
  IF got.err # ""
  THEN Failed(got.cache, got.err, <<verse_ids>>, 1)
  ELSE IF ~InSeq(got.cur, verse_ids)
  THEN \* tuple.index of a value that is not in the tuple
       Failed(got.cache, "ValueError", <<verse_ids>>, 1)
  ELSE MergeParagraphs(
         got.list, bcv.book, bcv.chapter, verse_ids,
         IF IndexOf(verse_ids, got.cur) < Len(verse_ids)
         THEN _get_paragraphs(tree, got.cache,
                              SubSeq(verse_ids, IndexOf(verse_ids, got.cur) + 1,
                                     Len(verse_ids)),
                              include_verse_number)
         ELSE [cache |-> got.cache, err |-> "", dict |-> EmptyDict,
               steps |-> <<>>, lookups |-> 0])

\* lines 185-194: paragraph_element is what tree.find returned
_get_paragraphs_in(tree, cache, verse_ids, include_verse_number, bcv, paragraph_element) ==
  IF paragraph_element = NoElement
  THEN \* list(None) in _get_paragraph_from_element
       Failed(cache, "TypeError", <<verse_ids>>, 1)
  ELSE _get_paragraphs_rest(
         tree, verse_ids, include_verse_number, bcv,
         IF <<paragraph_element, verse_ids, verse_ids[1], include_verse_number>> \in DOMAIN cache.map
         THEN [cache |-> Touch(cache, <<paragraph_element, verse_ids, verse_ids[1], include_verse_number>>),
               err |-> "",
               cur |-> cache.map[<<paragraph_element, verse_ids, verse_ids[1], include_verse_number>>].cur,
               list |-> cache.map[<<paragraph_element, verse_ids, verse_ids[1], include_verse_number>>].list]
         ELSE CachedParagraph(
                cache,
                <<paragraph_element, verse_ids, verse_ids[1], include_verse_number>>,
                _get_paragraph_from_element(ElementAt(tree, paragraph_element),
                                            verse_ids, verse_ids[1],
                                            include_verse_number)))

\* lines 180-184
_get_paragraphs_of(tree, cache, verse_ids, include_verse_number, bcv) ==
  _get_paragraphs_in(tree, cache, verse_ids, include_verse_number, bcv,
                     tree_find(tree, BookIdOrNone(bcv.book), bcv.chapter, bcv.verse))

\* cache is the _get_paragraph_from_element cache when the call starts; the
\* result holds the cache when it ends, the exception raised ("" for none),
\* the dictionary book -> chapter -> list returned, the id tuples of the
\* recursive steps made and the number of tree lookups made
_get_paragraphs(tree, cache, verse_ids, include_verse_number) ==
  _get_paragraphs_of(tree, cache, verse_ids, include_verse_number,
                     get_book_chapter_verse(verse_ids[1]))

\* bible_parser.sort_paragraphs: the same lists under books and chapters in
\* canonical order (a mapping of the model has no order of its own)
sort_paragraphs(paragraphs) ==
  [b \in DOMAIN paragraphs |-> [c \in DOMAIN paragraphs[b] |-> paragraphs[b][c]]]

RECURSIVE Insert(_, _)
Insert(x, s) ==
  IF s = <<>> THEN <<x>>
  ELSE IF x <= s[1] THEN <<x>> \o s ELSE <<s[1]>> \o Insert(x, Tail(s))

RECURSIVE Sorted(_)
\* list.sort()
Sorted(s) == IF s = <<>> THEN <<>> ELSE Insert(s[1], Sorted(Tail(s)))

(***************************************************************************)
(* The parser: state and public operations.                                *)
(***************************************************************************)
NoCall ==
  [op |-> "none", verse_ids |-> <<>>, include_verse_number |-> TRUE,
   err |-> "", value |-> EmptyDict, text |-> <<>>, steps |-> <<>>,
   lookups |-> 0, cached |-> FALSE, book |-> 0]

EmptyParagraphCache == [map |-> EmptyDict, lru |-> <<>>, heap |-> EmptyDict]

Init ==
  /\ doc \in DOMAIN ShortDocs
  /\ pfe_cache = EmptyParagraphCache
  /\ passage_cache = EmptyCache
  /\ verse_text_cache = EmptyCache
  /\ last = NoCall
  /\ calls = 0
  /\ title_element_cache = EmptyCache
  /\ book_title_cache = EmptyCache
  /\ short_title_cache = EmptyCache

CallerLists == UNION {[1..n -> Pool] : n \in 0..MaxReqLen}

\* what the last call was and returned
Call(op, verse_ids, include_verse_number, err, value, text, steps, lookups, cached) ==
  [op |-> op, verse_ids |-> verse_ids,
   include_verse_number |-> include_verse_number, err |-> err,
   value |-> value, text |-> text, steps |-> steps, lookups |-> lookups,
   cached |-> cached, book |-> 0]

\* _get_scripture_passage_text_memoized on a miss, r being what
\* _get_paragraphs returned (an exception is not cached)
PassageMiss(verse_ids, include_verse_number, r) ==
  /\ pfe_cache' = r.cache
  /\ passage_cache' = IF r.err = ""
                      THEN Store(passage_cache, <<verse_ids, include_verse_number>>,
                                 sort_paragraphs(r.dict))
                      ELSE passage_cache
  /\ last' = Call("extract", verse_ids, include_verse_number, r.err,
                  Deref(sort_paragraphs(r.dict), r.cache), <<>>, r.steps,
                  r.lookups, FALSE)

\* _get_scripture_passage_text_memoized under its lru_cache
_get_scripture_passage_text_memoized(verse_ids, include_verse_number) ==
  IF <<verse_ids, include_verse_number>> \in DOMAIN passage_cache.map
  THEN /\ last' = Call("extract", verse_ids, include_verse_number, "",
                       Deref(passage_cache.map[<<verse_ids, include_verse_number>>], pfe_cache),
                       <<>>, <<>>, 0, TRUE)
       /\ passage_cache' = Touch(passage_cache, <<verse_ids, include_verse_number>>)
       /\ UNCHANGED pfe_cache
  ELSE PassageMiss(verse_ids, include_verse_number,
                   _get_paragraphs(Tree, pfe_cache, verse_ids, include_verse_number))

\* lines 97-110
extract(caller_ids, include_verse_number) ==
  IF caller_ids = <<>>
  THEN /\ last' = Call("extract", <<>>, include_verse_number, "",
                       EmptyDict, <<>>, <<>>, 0, FALSE)
       /\ UNCHANGED <<pfe_cache, passage_cache>>
  ELSE _get_scripture_passage_text_memoized(Sorted(caller_ids), include_verse_number)

\* OSISParser.get_scripture_passage_text
get_scripture_passage_text(caller_ids, include_verse_number) ==
  /\ calls < MaxCalls
  /\ calls' = calls + 1
  /\ UNCHANGED <<doc, verse_text_cache, title_vars>>
  /\ extract(caller_ids, include_verse_number)

\* the loops of _get_verse_text_memoized over the books and chapters of a
\* singleton result
FirstParagraph(dict, cache) ==
  IF DOMAIN dict = {} THEN <<>>
  ELSE cache.heap[dict[CHOOSE b \in DOMAIN dict : TRUE]
                      [CHOOSE c \in DOMAIN dict[CHOOSE b \in DOMAIN dict : TRUE] : TRUE]][1]

\* a verse_id of None
None == 0

\* _get_verse_text_memoized on a miss, r being what _get_paragraphs returned
VerseTextMiss(verse_id, include_verse_number, r) ==
  /\ pfe_cache' = r.cache
  /\ verse_text_cache' = IF r.err = ""
                         THEN Store(verse_text_cache, <<verse_id, include_verse_number>>,
                                    FirstParagraph(r.dict, r.cache))
                         ELSE verse_text_cache
  /\ last' = Call("verseText", <<verse_id>>, include_verse_number, r.err,
                  EmptyDict,
                  IF r.err = "" THEN FirstParagraph(r.dict, r.cache) ELSE <<>>,
                  r.steps, r.lookups, FALSE)

\* _get_verse_text_memoized answering from its lru_cache
VerseTextHit(verse_id, include_verse_number) ==
  /\ last' = Call("verseText", <<verse_id>>, include_verse_number, "",
                  EmptyDict,
                  verse_text_cache.map[<<verse_id, include_verse_number>>],
                  <<>>, 0, TRUE)
  /\ verse_text_cache' = Touch(verse_text_cache, <<verse_id, include_verse_number>>)
  /\ UNCHANGED pfe_cache

\* _get_verse_text_memoized computing the text with the verse number
\* whatever the flag
_get_verse_text_memoized_numbered(verse_id, include_verse_number) ==
  IF <<verse_id, include_verse_number>> \in DOMAIN verse_text_cache.map
  THEN VerseTextHit(verse_id, include_verse_number)
  ELSE VerseTextMiss(verse_id, include_verse_number,
                     _get_paragraphs(Tree, pfe_cache, <<verse_id>>, TRUE))

\* _get_verse_text_memoized under its lru_cache
_get_verse_text_memoized(verse_id, include_verse_number) ==
  IF <<verse_id, include_verse_number>> \in DOMAIN verse_text_cache.map
  THEN VerseTextHit(verse_id, include_verse_number)
  ELSE VerseTextMiss(verse_id, include_verse_number,
                     _get_paragraphs(Tree, pfe_cache, <<verse_id>>, include_verse_number))

\* lines 138-144
verse_text(verse_id, include_verse_number) ==
  IF verse_id = None
  THEN /\ last' = Call("verseText", <<>>, include_verse_number,
                       "InvalidVerseError", EmptyDict, <<>>, <<>>, 0, FALSE)
       /\ UNCHANGED <<pfe_cache, verse_text_cache>>
  ELSE _get_verse_text_memoized(verse_id, include_verse_number)

\* OSISParser.get_verse_text
get_verse_text(verse_id, include_verse_number) ==
  /\ calls < MaxCalls
  /\ calls' = calls + 1
  /\ UNCHANGED <<doc, passage_cache, title_vars>>
  /\ verse_text(verse_id, include_verse_number)

\* the books a caller asks the titles of
TitleBooks == {GENESIS, EXODUS, MACCABEES_3}

\* what the last title call was and returned
TitleCall(op, book, err, text, cached) ==
  [Call(op, <<>>, TRUE, err, EmptyDict, text, <<>>, 0, cached) EXCEPT !.book = book]

\* OSISParser._get_book_title_element under its lru_cache: the element
\* tree.find returns (None is a result and is cached like any other)
_get_book_title_element(book) ==
  IF book \in DOMAIN title_element_cache.map THEN title_element_cache.map[book]
  ELSE tree_find_title(Tree, BookIdOrNone(book))

\* get_book_title on a miss, book_title_element being what
\* _get_book_title_element returned: None has no attribute text, and an
\* exception is not cached
BookTitleMiss(book, book_title_element) ==
  /\ title_element_cache' = Cached(title_element_cache, book, book_title_element)
  /\ IF book_title_element = NoTitle
     THEN /\ last' = TitleCall("title", book, "AttributeError", <<>>, FALSE)
          /\ UNCHANGED book_title_cache
     ELSE /\ last' = TitleCall("title", book, "", book_title_element.text, FALSE)
          /\ book_title_cache' = Store(book_title_cache, book, book_title_element.text)

\* OSISParser.get_book_title under its lru_cache
get_book_title(book) ==
  /\ calls < MaxCalls
  /\ calls' = calls + 1
  /\ UNCHANGED <<doc, pfe_cache, passage_cache, verse_text_cache, short_title_cache>>
  /\ IF book \in DOMAIN book_title_cache.map
     THEN /\ last' = TitleCall("title", book, "", book_title_cache.map[book], TRUE)
          /\ book_title_cache' = Touch(book_title_cache, book)
          /\ UNCHANGED title_element_cache
     ELSE BookTitleMiss(book, _get_book_title_element(book))

\* get_short_book_title on a miss: None has no method get
ShortTitleMiss(book, book_title_element) ==
  /\ title_element_cache' = Cached(title_element_cache, book, book_title_element)
  /\ IF book_title_element = NoTitle
     THEN /\ last' = TitleCall("shortTitle", book, "AttributeError", <<>>, FALSE)
          /\ UNCHANGED short_title_cache
     ELSE /\ last' = TitleCall("shortTitle", book, "", book_title_element.short, FALSE)
          /\ short_title_cache' = Store(short_title_cache, book, book_title_element.short)

\* OSISParser.get_short_book_title under its lru_cache
get_short_book_title(book) ==
  /\ calls < MaxCalls
  /\ calls' = calls + 1
  /\ UNCHANGED <<doc, pfe_cache, passage_cache, verse_text_cache, book_title_cache>>
  /\ IF book \in DOMAIN short_title_cache.map
     THEN /\ last' = TitleCall("shortTitle", book, "", short_title_cache.map[book], TRUE)
          /\ short_title_cache' = Touch(short_title_cache, book)
          /\ UNCHANGED title_element_cache
     ELSE ShortTitleMiss(book, _get_book_title_element(book))

Next ==
  \/ \E caller_ids \in CallerLists, include_verse_number \in BOOLEAN :
       get_scripture_passage_text(caller_ids, include_verse_number)
  \/ \E verse_id \in Pool \cup {None}, include_verse_number \in BOOLEAN :
       get_verse_text(verse_id, include_verse_number)
  \/ \E book \in TitleBooks : get_book_title(book)
  \/ \E book \in TitleBooks : get_short_book_title(book)

Spec == Init /\ [][Next]_vars

(***************************************************************************)
(* A caller that asks for the verses of the long document in turn, more    *)
(* of them than an lru_cache holds, and then for the first ones again.     *)
(***************************************************************************)
MaxTurns == 130

InitLong ==
  /\ doc = Len(Docs)
  /\ pfe_cache = EmptyParagraphCache
  /\ passage_cache = EmptyCache
  /\ verse_text_cache = EmptyCache
  /\ last = NoCall
  /\ calls = 0
  /\ title_element_cache = EmptyCache
  /\ book_title_cache = EmptyCache
  /\ short_title_cache = EmptyCache

\* OSISParser.get_verse_text, called for the next verse in turn
get_verse_text_in_turn ==
  /\ calls < MaxTurns
  /\ calls' = calls + 1
  /\ UNCHANGED <<doc, passage_cache, title_vars>>
  /\ verse_text(LongVerse((calls % (maxsize + 1)) + 1), TRUE)

NextLong == get_verse_text_in_turn

SpecLong == InitLong /\ [][NextLong]_vars

(***************************************************************************)
(* Notions the properties are stated with.                                 *)
(***************************************************************************)
Letters ==
  {"a", "b", "c", "d", "e", "f", "g", "h", "i", "j", "k", "l", "m", "n", "o",
   "p", "q", "r", "s", "t", "u", "v", "w", "x", "y", "z"}

CharsOf(s) == {s[i] : i \in DOMAIN s}

LettersOf(s) == CharsOf(s) \cap Letters

\* the paragraph strings of a result book -> chapter -> list
OutputStrings(value) ==
  UNION {UNION {{value[b][c][i] : i \in DOMAIN value[b][c]} : c \in DOMAIN value[b]} :
           b \in DOMAIN value}

OutputLetters(value) == UNION {LettersOf(p) : p \in OutputStrings(value)}

\* s contains sub as a substring
Contains(s, sub) ==
  \E i \in 1..(Len(s) - Len(sub) + 1) : SubSeq(s, i, i + Len(sub) - 1) = sub

\* what the same call returns on a parser constructed for it alone
Fresh(verse_ids, include_verse_number) ==
  _get_paragraphs(Tree, EmptyParagraphCache, verse_ids, include_verse_number)

FreshValue(r) == Deref(sort_paragraphs(r.dict), r.cache)

\* the last call was get_scripture_passage_text with a non-empty list
LastExtract == last.op = "extract" /\ last.verse_ids # <<>>

LastExtractOk == LastExtract /\ last.err = ""

Requested(verse_id) == InSeq(verse_id, last.verse_ids)

RECURSIVE Elements(_)
\* the elements of the subtree of el
Elements(el) ==
  {el} \cup UNION {Elements(el.children[i]) : i \in DOMAIN el.children}

IsBoundary(el) == el.tag = "verse" /\ el.osisID # PlaceholderOsisId

\* the verse id a verse boundary element carries
BoundaryId(el) ==
  get_verse_id(get_book_by_id(el.osisID[1]).book, StrToInt(el.osisID[2]),
               StrToInt(el.osisID[3]))

\* the verse boundary elements of the document that carry verse_id
Boundaries(verse_id) ==
  {el \in Elements(Tree) : IsBoundary(el) /\ BoundaryId(el) = verse_id}

\* The verse a text belongs to is the one of the last verse boundary before
\* it in document order (0: none).  OwnerInside is the verse that owns an
\* element's text, OwnerAfter the one that owns its tail.
OwnerInside(el, owner) == IF IsBoundary(el) THEN BoundaryId(el) ELSE owner

RECURSIVE OwnerAfter(_, _)
RECURSIVE OwnerAfterChildren(_, _, _)
OwnerAfterChildren(el, i, owner) ==
  IF i > Len(el.children) THEN owner
  ELSE OwnerAfterChildren(el, i + 1, OwnerAfter(el.children[i], owner))

OwnerAfter(el, owner) == OwnerAfterChildren(el, 1, OwnerInside(el, owner))

RECURSIVE OwnedLetters(_, _)
RECURSIVE OwnedChildren(_, _, _)
\* the pairs <<letter, owning verse>> of the subtree of el and its tail
OwnedLetters(el, owner) ==
  {<<c, OwnerInside(el, owner)>> : c \in LettersOf(el.text)}
    \cup OwnedChildren(el, 1, OwnerInside(el, owner))
    \cup {<<c, OwnerAfter(el, owner)>> : c \in LettersOf(el.tail)}

OwnedChildren(el, i, owner) ==
  IF i > Len(el.children) THEN {}
  ELSE OwnedLetters(el.children[i], owner)
         \cup OwnedChildren(el, i + 1, OwnerAfter(el.children[i], owner))

NoDuplicates(s) == \A i \in DOMAIN s : \A j \in DOMAIN s : i # j => s[i] # s[j]

\* no call so far was made with a list that holds an id twice
NoDuplicatesSoFar ==
  /\ NoDuplicates(last.verse_ids)
  /\ \A key \in DOMAIN pfe_cache.map : NoDuplicates(key[2])

(***************************************************************************)
(* C1, as the specification states it: a call of                           *)
(* get_scripture_passage_text returns, after any earlier calls on the same *)
(* parser, what the same call returns on a freshly constructed parser      *)
(* (here already for callers that never pass an id twice).                 *)
(***************************************************************************)
C1_Deterministic ==
  LastExtract /\ NoDuplicatesSoFar =>
    /\ last.err = Fresh(last.verse_ids, last.include_verse_number).err
    /\ last.value = FreshValue(Fresh(last.verse_ids, last.include_verse_number))

(***************************************************************************)
(* C2, as the specification states it: the text in the output of a call is *)
(* exactly the text of the requested verses.  Every letter of a returned   *)
(* paragraph string belongs to a requested verse, and the own text of      *)
(* every requested verse that has a boundary element is in the output.     *)
(***************************************************************************)
C2_OnlyRequestedText ==
  LastExtractOk =>
    /\ \A lo \in OwnedLetters(Tree, 0) :
         lo[1] \in OutputLetters(last.value) => Requested(lo[2])
    /\ \A i \in DOMAIN last.verse_ids :
         \A el \in Boundaries(last.verse_ids[i]) :
           LettersOf(el.text \o el.tail) \subseteq OutputLetters(last.value)

(***************************************************************************)
(* C3, as the specification states it: the requested ids are deduplicated, *)
(* so the first unconsumed ids of the successive steps of _get_paragraphs  *)
(* are strictly increasing and no id is handled twice.                     *)
(***************************************************************************)
C3_StrictlyIncreasingSteps ==
  LastExtract =>
    \A i \in DOMAIN last.steps : \A j \in DOMAIN last.steps :
      i < j => last.steps[i][1] < last.steps[j][1]

\* the element tree.find returns for a verse id (lines 184-187)
ParagraphOf(verse_id) ==
  tree_find(Tree, BookIdOrNone(get_book_chapter_verse(verse_id).book),
            get_book_chapter_verse(verse_id).chapter,
            get_book_chapter_verse(verse_id).verse)

\* the boundaries of v1, v2, v3 are children of one paragraph, in this order
SameParagraphInOrder(v1, v2, v3) ==
  /\ ParagraphOf(v1) # NoElement
  /\ \E i, j, k \in DOMAIN ElementAt(Tree, ParagraphOf(v1)).children :
       /\ i < j /\ j < k
       /\ ElementAt(Tree, ParagraphOf(v1)).children[i] \in Boundaries(v1)
       /\ ElementAt(Tree, ParagraphOf(v1)).children[j] \in Boundaries(v2)
       /\ ElementAt(Tree, ParagraphOf(v1)).children[k] \in Boundaries(v3)

\* the own letters of the boundary elements of a verse
VerseLetters(verse_id) ==
  UNION {LettersOf(el.text \o el.tail) : el \in Boundaries(verse_id)}

\* the request is {v1, v3}, v2 = v1 + 1 lies between them in their
\* paragraph, and v1 and v3 have text to contribute
GapCase(verse_ids) ==
  /\ Len(verse_ids) = 2
  /\ verse_ids[2] = verse_ids[1] + 2
  /\ SameParagraphInOrder(verse_ids[1], verse_ids[1] + 1, verse_ids[2])
  /\ VerseLetters(verse_ids[1]) # {}
  /\ VerseLetters(verse_ids[2]) # {}

\* the request is an adjacent pair {v1, v2}
AdjacentCase(verse_ids) ==
  Len(verse_ids) = 2 /\ verse_ids[2] = verse_ids[1] + 1

\* in s the marker stands at i, after every letter of before and before
\* every letter of after
MarkerBetween(s, i, before, after) ==
  /\ i + 3 <= Len(s)
  /\ SubSeq(s, i, i + 3) = Ellipsis
  /\ \A a \in before : \E j \in 1..(i - 1) : s[j] = a
  /\ \A c \in after : \E j \in (i + 4)..Len(s) : s[j] = c

RECURSIVE CallEvents(_, _)
\* the verse boundaries and readings the traversals of the steps reached,
\* in the order reached
CallEvents(steps, include_verse_number) ==
  IF steps = <<>> THEN <<>>
  ELSE _get_paragraph_from_element(ElementAt(Tree, ParagraphOf(steps[1][1])),
                                   steps[1], steps[1][1],
                                   include_verse_number).events
         \o CallEvents(Tail(steps), include_verse_number)

LastEvents == CallEvents(last.steps, last.include_verse_number)

\* the positions before j of the requested verse boundaries
ConsumedBefore(events, j) ==
  {i \in 1..(j - 1) : events[i].kind = "verse" /\ events[i].requested}

Max(S) == CHOOSE x \in S : \A y \in S : y <= x

(***************************************************************************)
(* C5: a verse boundary contributes the ellipsis marker only if the        *)
(* traversal was in skipping mode when it was reached and its id exceeds   *)
(* the id consumed before it by more than one; the first requested verse   *)
(* of a call (none consumed before it) never contributes the marker.       *)
(***************************************************************************)
C5_EllipsisOnlyAfterSkip ==
  LastExtractOk =>
    \A j \in DOMAIN LastEvents :
      LastEvents[j].kind = "verse" /\ LastEvents[j].ellipsis =>
        /\ LastEvents[j].skip_before
        /\ ConsumedBefore(LastEvents, j) # {}
        /\ LastEvents[j].id >
             LastEvents[Max(ConsumedBefore(LastEvents, j))].id + 1

\* a call in which one boundary contributed the marker and in which the
\* first requested verse was reached in skipping mode
C5_Witness ==
  /\ LastExtractOk
  /\ \E j \in DOMAIN LastEvents :
       LastEvents[j].kind = "verse" /\ LastEvents[j].ellipsis
  /\ \E j \in DOMAIN LastEvents :
       /\ LastEvents[j].kind = "verse" /\ LastEvents[j].requested
       /\ LastEvents[j].skip_before
       /\ ConsumedBefore(LastEvents, j) = {}

\* paragraph p lies inside paragraph q
NestedIn(p, q) == Len(q) < Len(p) /\ SubSeq(p, 1, Len(q)) = q

\* the paragraphs of the requested verses are found and none lies in another
DisjointParagraphs ==
  \A m, n \in DOMAIN last.verse_ids :
    /\ ParagraphOf(last.verse_ids[m]) # NoElement
    /\ ~NestedIn(ParagraphOf(last.verse_ids[m]), ParagraphOf(last.verse_ids[n]))

(***************************************************************************)
(* C6, as the specification states it: for a request without repeated ids  *)
(* whose verses lie in several paragraphs of one chapter, none inside      *)
(* another, the chapter's list holds the paragraph strings in document     *)
(* order (the string with an earlier verse before the string with a later  *)
(* verse of another paragraph), each exactly once.                         *)
(***************************************************************************)
C6_ParagraphOrder ==
  LastExtractOk /\ NoDuplicatesSoFar /\ DisjointParagraphs =>
    \A b \in DOMAIN last.value : \A c \in DOMAIN last.value[b] :
      /\ NoDuplicates(last.value[b][c])
      /\ \A i, j \in DOMAIN last.value[b][c] :
           \A m, n \in DOMAIN last.verse_ids :
             /\ m < n
             /\ ParagraphOf(last.verse_ids[m]) # ParagraphOf(last.verse_ids[n])
             /\ VerseLetters(last.verse_ids[m]) \cap LettersOf(last.value[b][c][i]) # {}
             /\ VerseLetters(last.verse_ids[n]) \cap LettersOf(last.value[b][c][j]) # {}
             => i < j

IsDigit(c) == \E d \in DOMAIN Digits : Digits[d] = c

RECURSIVE DropDigits(_)
DropDigits(s) == IF s # <<>> /\ IsDigit(s[1]) THEN DropDigits(Tail(s)) ELSE s

RECURSIVE RemoveNumbers(_)
\* s without its verse number prefixes "<digits>. "
RemoveNumbers(s) ==
  IF s = <<>> THEN <<>>
  ELSE IF IsDigit(s[1]) /\ StartsWith(DropDigits(s), <<".", " ">>)
       THEN RemoveNumbers(SubSeq(DropDigits(s), 3, Len(DropDigits(s))))
       ELSE <<s[1]>> \o RemoveNumbers(Tail(s))

\* the prefix "{verse}. " of a verse id
NumberPrefix(verse_id) ==
  IntToStr(get_book_chapter_verse(verse_id).verse) \o <<".", " ">>

\* the own text of a verse boundary as a paragraph string shows it
OwnText(el) == clean_paragraph(_get_element_text_and_tail(el))

\* the value with the prefixes removed from every paragraph string
WithoutNumbers(value) ==
  [b \in DOMAIN value |-> [c \in DOMAIN value[b] |->
     [i \in DOMAIN value[b][c] |-> RemoveNumbers(value[b][c][i])]]]

(***************************************************************************)
(* C7, as the specification states it: with include_verse_number the text  *)
(* of every requested verse is preceded by "{verse}. " in the output, in   *)
(* every paragraph shape; without it the output holds the verse's text and *)
(* no number, and is what the call with the flag returns once the prefixes *)
(* are removed.                                                            *)
(***************************************************************************)
C7_NumberPrefixEverywhere ==
  LastExtractOk =>
    /\ \A m \in DOMAIN last.verse_ids : \A el \in Boundaries(last.verse_ids[m]) :
         \E s \in OutputStrings(last.value) :
           IF last.include_verse_number
           THEN Contains(s, NumberPrefix(last.verse_ids[m]) \o OwnText(el))
           ELSE Contains(s, OwnText(el))
    /\ ~last.include_verse_number =>
         \A s \in OutputStrings(last.value) : \A i \in DOMAIN s : ~IsDigit(s[i])
    /\ WithoutNumbers(FreshValue(Fresh(last.verse_ids, TRUE)))
         = FreshValue(Fresh(last.verse_ids, FALSE))

\* s.endswith(suffix)
EndsWith(s, suffix) ==
  Len(s) >= Len(suffix) /\ SubSeq(s, Len(s) - Len(suffix) + 1, Len(s)) = suffix

\* "{verse}." of a verse id, the prefix without its space
NumberAndStop(verse_id) ==
  IntToStr(get_book_chapter_verse(verse_id).verse) \o <<".">>

\* s without its prefixes, one at the end of s taken without its space,
\* and without the whitespace at its ends
StripNumbers(s) ==
  Strip(RemoveNumbers(IF s # <<>> /\ s[Len(s)] = "." /\ Len(s) > 1 /\ IsDigit(s[Len(s) - 1])
                      THEN s \o <<" ">> ELSE s))

\* the value with StripNumbers applied to every paragraph string
WithNumbersStripped(value) ==
  [b \in DOMAIN value |-> [c \in DOMAIN value[b] |->
     [i \in DOMAIN value[b][c] |-> StripNumbers(value[b][c][i])]]]

(***************************************************************************)
(* C7, amended: with include_verse_number the text of every requested      *)
(* verse is preceded by "{verse}. " in a paragraph string, except that a   *)
(* verse without text that ends its paragraph leaves "{verse}." at the end *)
(* of the string, the space being stripped; without the flag the output    *)
(* holds the verse's text and no number, and is what the call with the     *)
(* flag returns once the prefixes are removed and the ends are stripped.   *)
(***************************************************************************)
C7_VerseNumberFlag ==
  LastExtractOk =>
    /\ \A m \in DOMAIN last.verse_ids : \A el \in Boundaries(last.verse_ids[m]) :
         \E s \in OutputStrings(last.value) :
           IF last.include_verse_number
           THEN \/ Contains(s, NumberPrefix(last.verse_ids[m]) \o OwnText(el))
                \/ /\ OwnText(el) = <<>>
                   /\ EndsWith(s, NumberAndStop(last.verse_ids[m]))
           ELSE Contains(s, OwnText(el))
    /\ ~last.include_verse_number =>
         \A s \in OutputStrings(last.value) : \A i \in DOMAIN s : ~IsDigit(s[i])
    /\ WithNumbersStripped(FreshValue(Fresh(last.verse_ids, TRUE)))
         = FreshValue(Fresh(last.verse_ids, FALSE))

\* a call with the flag returned a string that holds the number and the
\* text of one verse and ends with the number of a verse without text
C7_Witness ==
  /\ LastExtractOk
  /\ last.include_verse_number
  /\ \E s \in OutputStrings(last.value) : \E m, n \in DOMAIN last.verse_ids :
       /\ VerseLetters(last.verse_ids[m]) # {}
       /\ \E el \in Boundaries(last.verse_ids[m]) :
            Contains(s, NumberPrefix(last.verse_ids[m]) \o OwnText(el))
       /\ VerseLetters(last.verse_ids[n]) = {}
       /\ EndsWith(s, NumberAndStop(last.verse_ids[n]))

RECURSIVE NotesIn(_, _)
RECURSIVE NotesInChildren(_, _, _)
\* the pairs <<note element, verse that owns it>> of the subtree of el
NotesIn(el, owner) ==
  (IF el.tag = "note" THEN {<<el, owner>>} ELSE {})
    \cup NotesInChildren(el, 1, OwnerInside(el, owner))

NotesInChildren(el, i, owner) ==
  IF i > Len(el.children) THEN {}
  ELSE NotesIn(el.children[i], owner)
         \cup NotesInChildren(el, i + 1, OwnerAfter(el.children[i], owner))

\* the letters of the text of the rdg children of a note
ReadingLetters(note) ==
  UNION {LettersOf(note.children[i].text) :
           i \in {k \in DOMAIN note.children : note.children[k].tag = "rdg"}}

\* the letters of a note that are not the text of one of its rdg children
NoteBodyLetters(note) ==
  {lo[1] : lo \in OwnedLetters([note EXCEPT !.tail = <<>>], 0)}
    \ ReadingLetters(note)

(***************************************************************************)
(* C8: when a note of a requested verse has a rdg child and other content, *)
(* the output holds the text of the rdg child and none of the note's other *)
(* text.                                                                   *)
(***************************************************************************)
C8_FootnoteSuppression ==
  LastExtractOk =>
    \A no \in NotesIn(Tree, 0) :
      Requested(no[2]) /\ ReadingLetters(no[1]) # {} =>
        /\ ReadingLetters(no[1]) \subseteq OutputLetters(last.value)
        /\ NoteBodyLetters(no[1]) \cap OutputLetters(last.value) = {}

\* the verse of a note with a reading and other children was requested
C8_Witness ==
  /\ LastExtractOk
  /\ \E no \in NotesIn(Tree, 0) :
       /\ Requested(no[2])
       /\ ReadingLetters(no[1]) # {}
       /\ NoteBodyLetters(no[1]) # {}
       /\ ReadingLetters(no[1]) \subseteq OutputLetters(last.value)

\* the rdg elements in the paragraphs the steps of the last call traversed
ReadingsTraversed ==
  UNION {{el \in Elements(ElementAt(Tree, ParagraphOf(last.steps[k][1]))) :
            el.tag = "rdg"} : k \in DOMAIN last.steps}

(***************************************************************************)
(* C9, as the specification states it: the text of a rdg element is in the *)
(* output whether or not the traversal is in skipping mode where it lies.  *)
(***************************************************************************)
C9_ReadingAlwaysSurfaced ==
  LastExtractOk =>
    \A el \in ReadingsTraversed : LettersOf(el.text) \subseteq OutputLetters(last.value)

\* what step k of the last call computes for its paragraph
StepResult(k) ==
  _get_paragraph_from_element(ElementAt(Tree, ParagraphOf(last.steps[k][1])),
                              last.steps[k], last.steps[k][1],
                              last.include_verse_number)

\* the letters of the paragraph strings step k produces
StepLetters(k) ==
  UNION {LettersOf(StepResult(k).paragraphs[i]) : i \in DOMAIN StepResult(k).paragraphs}

(***************************************************************************)
(* C9, amended: a rdg element the traversal reaches while not skipping     *)
(* contributes its text to the output, inside a note or not; one a step    *)
(* reaches in skipping mode contributes nothing to that step's paragraph.  *)
(***************************************************************************)
C9_ReadingSurfacedUnlessSkipping ==
  LastExtractOk =>
    \A k \in DOMAIN last.steps : \A j \in DOMAIN StepResult(k).events :
      StepResult(k).events[j].kind = "rdg" =>
        IF StepResult(k).events[j].skip_before
        THEN LettersOf(StepResult(k).events[j].text) \cap StepLetters(k) = {}
        ELSE /\ LettersOf(StepResult(k).events[j].text) \subseteq StepLetters(k)
             /\ StepLetters(k) \subseteq OutputLetters(last.value)

\* one call reached a reading in skipping mode and a reading of a note
\* outside skipping mode
C9_Witness ==
  /\ LastExtractOk
  /\ \E j \in DOMAIN LastEvents :
       /\ LastEvents[j].kind = "rdg" /\ LastEvents[j].skip_before
       /\ LettersOf(LastEvents[j].text) # {}
  /\ \E j \in DOMAIN LastEvents :
       /\ LastEvents[j].kind = "rdg" /\ ~LastEvents[j].skip_before
       /\ LastEvents[j].inside_note
       /\ LettersOf(LastEvents[j].text) # {}

(***************************************************************************)
(* C10, as the specification states it: when the first unconsumed id of a  *)
(* step is of a book without entry in BOOK_IDS, the call fails with the    *)
(* book table's error and that step makes no lookup in the tree.           *)
(***************************************************************************)
C10_UnknownBookError ==
  \A k \in DOMAIN last.steps :
    get_book_chapter_verse(last.steps[k][1]).book \notin DOMAIN BOOK_IDS =>
      /\ last.err = "InvalidBookError"
      /\ last.lookups = k - 1

\* verse_id decodes to a book of BOOK_IDS and the document has no verse
\* boundary that carries it
MissingVerse(verse_id) ==
  /\ verse_id # None
  /\ get_book_chapter_verse(verse_id).book \in DOMAIN BOOK_IDS
  /\ Boundaries(verse_id) = {}

(***************************************************************************)
(* C11, as the specification states it: a call whose ids are all of books  *)
(* of BOOK_IDS and that requests a verse the document does not have does   *)
(* not fail; get_verse_text returns the empty string for such a verse.     *)
(***************************************************************************)
C11_MissingVersePermissive ==
  /\ last.op \in {"extract", "verseText"}
  /\ \E i \in DOMAIN last.verse_ids : MissingVerse(last.verse_ids[i])
  /\ \A i \in DOMAIN last.verse_ids :
       get_book_chapter_verse(last.verse_ids[i]).book \in DOMAIN BOOK_IDS
  => /\ last.err = ""
     /\ last.op = "verseText" => last.text = <<>>

\* the last call was get_verse_text with a verse id
LastVerseText == last.op = "verseText" /\ last.verse_ids # <<>>

\* the first paragraph string of a result, "" when it has none
FirstString(value) ==
  IF OutputStrings(value) = {} THEN <<>>
  ELSE value[CHOOSE b \in DOMAIN value : TRUE]
            [CHOOSE c \in DOMAIN value[CHOOSE b \in DOMAIN value : TRUE] : TRUE][1]

\* what get_scripture_passage_text returns for verse_ids on the parser as
\* it is now: [err, value]
ExtractNow(verse_ids, include_verse_number) ==
  IF <<verse_ids, include_verse_number>> \in DOMAIN passage_cache.map
  THEN [err |-> "",
        value |-> Deref(passage_cache.map[<<verse_ids, include_verse_number>>], pfe_cache)]
  ELSE [err |-> _get_paragraphs(Tree, pfe_cache, verse_ids, include_verse_number).err,
        value |-> FreshValue(_get_paragraphs(Tree, pfe_cache, verse_ids,
                                             include_verse_number))]

(***************************************************************************)
(* C12: get_verse_text of a verse id returns the first paragraph string of *)
(* what get_scripture_passage_text returns for the singleton list of that  *)
(* id and the same flag, on this parser after the calls made so far and on *)
(* a parser constructed for that call alone ("" when there is none); it    *)
(* raises what that call raises.                                           *)
(***************************************************************************)
C12_VerseTextIsFirstParagraph ==
  LastVerseText =>
    /\ last.err = ExtractNow(last.verse_ids, last.include_verse_number).err
    /\ last.err = Fresh(last.verse_ids, last.include_verse_number).err
    /\ last.err = "" =>
         /\ last.text = FirstString(ExtractNow(last.verse_ids,
                                               last.include_verse_number).value)
         /\ last.text = FirstString(FreshValue(Fresh(last.verse_ids,
                                                     last.include_verse_number)))

\* get_verse_text returned the text of a verse that an earlier call had
\* requested together with other verses
C12_Witness ==
  /\ LastVerseText
  /\ last.err = ""
  /\ LettersOf(last.text) # {}
  /\ ~last.include_verse_number
  /\ \E key \in DOMAIN pfe_cache.map :
       Len(key[2]) > 1 /\ InSeq(last.verse_ids[1], key[2])

\* the last call was get_book_title or get_short_book_title
LastTitle == last.op \in {"title", "shortTitle"}

(***************************************************************************)
(* C13, as the specification states it: get_book_title and                 *)
(* get_short_book_title never raise; when the document has no title        *)
(* element for the book, the book having a division code or not, they      *)
(* return the empty string.                                                *)
(***************************************************************************)
C13_TitlesNeverRaise ==
  LastTitle =>
    /\ last.err = ""
    /\ tree_find_title(Tree, BookIdOrNone(last.book)) = NoTitle => last.text = <<>>


\* the entries of cache c before a step are entries after it
Kept(c, d) == DOMAIN c.map \subseteq DOMAIN d.map

\* C14: cached results are never evicted: every result computed for an
\* argument tuple stays in its cache, whatever calls with other argument
\* tuples follow
C14_NeverEvicted ==
  [][/\ Kept(verse_text_cache, verse_text_cache')
     /\ Kept(passage_cache, passage_cache')
     /\ Kept(pfe_cache, pfe_cache')
     /\ Kept(title_element_cache, title_element_cache')
     /\ Kept(book_title_cache, book_title_cache')
     /\ Kept(short_title_cache, short_title_cache')]_vars


\* the positions in events of the requested verse boundaries matched
MatchedAt(events) ==
  {j \in DOMAIN events : events[j].kind = "verse" /\ events[j].requested}

\* the ids of the requested verse boundaries a step result r matched
MatchedIds(r) == {r.events[j].id : j \in MatchedAt(r.events)}

\* the id a step result r returns is the id of the last boundary it matched
ReturnsLastMatched(r) ==
  MatchedAt(r.events) # {} => r.cur = r.events[Max(MatchedAt(r.events))].id

(***************************************************************************)
(* C15: in a call for distinct ids, the id every recursive step returns    *)
(* for its paragraph is the id of the last requested verse boundary the    *)
(* traversal matched in the paragraph, nested or not, and no requested     *)
(* verse is matched by two steps of the call.                              *)
(***************************************************************************)
C15_LastConsumedIsLastMatched ==
  LastExtractOk /\ NoDuplicates(last.verse_ids) =>
    /\ \A k \in DOMAIN last.steps : ReturnsLastMatched(StepResult(k))
    /\ \A k \in DOMAIN last.steps : \A m \in DOMAIN last.steps :
         k < m => MatchedIds(StepResult(k)) \cap MatchedIds(StepResult(m)) = {}


\* the traversal of the paragraph of step k of the last call: the state the
\* loop of _get_paragraph_from_element ends in
StepTraversal(k) ==
  _get_paragraph_loop(ElementAt(Tree, ParagraphOf(last.steps[k][1])), 1,
                      last.steps[k], last.include_verse_number,
                      Ret(<<>>, FALSE, last.steps[k][1], <<>>))

\* the skipping flag after the events before j: what the last verse
\* boundary with an id left, FALSE before the first
SkipAfter(events, j) ==
  IF {i \in 1..(j - 1) : events[i].kind = "verse"} = {} THEN FALSE
  ELSE ~events[Max({i \in 1..(j - 1) : events[i].kind = "verse"})].requested

\* every element of the traversal r was handed the flag the last boundary
\* before it left, and so is the end of the traversal
FlagFollowsBoundaries(r) ==
  /\ \A j \in DOMAIN r.events : r.events[j].skip_before = SkipAfter(r.events, j)
  /\ r.skip = SkipAfter(r.events, Len(r.events) + 1)

(***************************************************************************)
(* C16: the skipping flag changes only at verse boundaries: it is true     *)
(* after a boundary whose id is not requested, false after one whose id is *)
(* requested, and every element between, nested or not, and a verse        *)
(* element without id leave it as it is.                                   *)
(***************************************************************************)
C16_SkipChangesAtBoundaries ==
  LastExtractOk => \A k \in DOMAIN last.steps : FlagFollowsBoundaries(StepTraversal(k))

\* a nested boundary that is not requested, and a later requested boundary
\* reached in skipping mode
SkipCarriedOut(k, events) ==
  \E j \in DOMAIN events : \E m \in DOMAIN events :
    /\ j < m
    /\ events[j].kind = "verse" /\ ~events[j].requested
    /\ ParagraphOf(events[j].id) # ParagraphOf(last.steps[k][1])
    /\ events[m].kind = "verse" /\ events[m].requested /\ events[m].skip_before

C16_Witness ==
  /\ LastExtractOk
  /\ \E k \in DOMAIN last.steps : SkipCarriedOut(k, StepTraversal(k).events)


\* the letters of the text and tail of el and of the elements below it
SubtreeLetters(el) ==
  UNION {LettersOf(e.text) \cup LettersOf(e.tail) : e \in Elements(el)}

\* letter x is followed at once by letter y in a string of the last result
AdjacentInOutput(x, y) ==
  \E s \in OutputStrings(last.value) : \E i \in 1..(Len(s) - 1) :
    s[i] = x /\ s[i + 1] = y

\* no text of child i of parent runs into text of a later child
ContributionsApart(parent) ==
  \A i \in DOMAIN parent.children : \A j \in DOMAIN parent.children :
    i < j =>
      \A x \in SubtreeLetters(parent.children[i]) :
        \A y \in SubtreeLetters(parent.children[j]) : ~AdjacentInOutput(x, y)

(***************************************************************************)
(* C17: at every depth, the contributions of two children of one element   *)
(* are separated in the output: the text of a child is never followed at   *)
(* once by the text of a later child of the same parent.                   *)
(***************************************************************************)
C17_SpaceBetweenContributions ==
  LastExtractOk => \A parent \in Elements(Tree) : ContributionsApart(parent)


\* the id tuple of step k + 1 is what follows the first occurrence of the
\* id step k returned
ResumesAfter(k, cur) ==
  /\ InSeq(cur, last.steps[k])
  /\ k < Len(last.steps) =>
       last.steps[k + 1] = SubSeq(last.steps[k], IndexOf(last.steps[k], cur) + 1,
                                  Len(last.steps[k]))
  /\ k = Len(last.steps) => IndexOf(last.steps[k], cur) = Len(last.steps[k])

(***************************************************************************)
(* C18: every call for a non-empty request that is computed ends without   *)
(* a failed index lookup; its first step has the sorted request, every     *)
(* further step a strictly shorter id tuple, and there are no more steps   *)
(* than ids.  In a successful call the id every step returned is a member  *)
(* of the step's tuple, and the next step has the ids after it.            *)
(***************************************************************************)
C18_StepsShrink ==
  LastExtract /\ ~last.cached =>
    /\ last.err # "ValueError"
    /\ last.steps # <<>> /\ last.steps[1] = last.verse_ids
    /\ \A k \in 1..(Len(last.steps) - 1) : Len(last.steps[k + 1]) < Len(last.steps[k])
    /\ Len(last.steps) <= Len(last.verse_ids)
    /\ last.err = "" => \A k \in DOMAIN last.steps : ResumesAfter(k, StepResult(k).cur)

\* a successful call of several steps, one of which consumed more than its
\* first id
C18_Witness ==
  /\ LastExtractOk
  /\ NoDuplicates(last.verse_ids)
  /\ Len(last.steps) >= 2
  /\ \E k \in 1..(Len(last.steps) - 1) : Len(last.steps[k + 1]) < Len(last.steps[k]) - 1


\* the paragraph strings the last call returned: those of the passage
\* result, or the verse text
ReturnedStrings ==
  IF LastVerseText THEN {last.text} ELSE OutputStrings(last.value)

\* s has no paragraph-break marker, no two adjacent spaces and no
\* whitespace at either end
Clean(s) ==
  /\ "¶" \notin CharsOf(s)
  /\ ~Contains(s, <<" ", " ">>)
  /\ s # <<>> => s[1] \notin Whitespace /\ s[Len(s)] \notin Whitespace

(***************************************************************************)
(* C19: every paragraph string a call returns is cleaned: it has no        *)
(* paragraph-break marker, no two adjacent spaces, whatever runs of spaces *)
(* the accumulated text had, and no whitespace at either end.              *)
(***************************************************************************)
C19_ResultsAreClean ==
  last.err = "" /\ (LastExtract \/ LastVerseText) =>
    \A s \in ReturnedStrings : Clean(s)


\* the result returned for key reads the same in cache c and in cache d
SameResult(key, c, d) ==
  Deref(passage_cache.map[key], c) = Deref(passage_cache.map[key], d)

(***************************************************************************)
(* C20: a result returned to a caller is never changed by a later call:    *)
(* the books, chapters and paragraph lists of every result returned so far *)
(* read after a step as they read before it.                               *)
(***************************************************************************)
C20_ReturnedResultsStay ==
  [][\A key \in DOMAIN passage_cache.map : SameResult(key, pfe_cache, pfe_cache')]_vars

====
